---- MODULE Spec2Model ----
(***************************************************************************)
(* Frame loop of "Doors of Perception" (src/main.py): the game-state       *)
(* machine, the per-frame event handling and the Playing-state tick        *)
(* pipeline (Player, Monsters, Portals, Scoreboard) on the fixed layout.   *)
(*                                                                         *)
(* Rectangles are pygame.Rect values: integer x, y, w, h.  A speed is kept *)
(* in tenths of a pixel (2.3 -> 23); assigning a float to a Rect           *)
(* coordinate truncates it toward zero.  time_left is kept in sixtieths of *)
(* a second (100.0 -> 6000), one sixtieth being subtracted per update.     *)
(***************************************************************************)
EXTENDS Integers, Sequences, FiniteSets, TLC

\* ------------------------------------------------------------------------
\* Game states and GameOver reasons
\* ------------------------------------------------------------------------
GAME_STATE_START == "start"
GAME_STATE_PLAYING == "playing"
GAME_STATE_GAME_OVER == "game_over"

REASON_EXIT == "You made it out alive!"
REASON_GHOST == "You were discombobulated by a ghost!"
REASON_TIME == "You ran out of time!"

\* ------------------------------------------------------------------------
\* Layout data (initialise_game_objects) and image sizes
\* ------------------------------------------------------------------------
PlayerW == 50
PlayerH == 86
MonsterW == 50
MonsterH == 70
CoinW == 40
CoinH == 40
PortalW == 50
PortalH == 70

PlayerSpawn == <<100, 200>>
PlayerSpeed == 3
ExitLine == 1050
StartTime == 6000
StartPortals == 5
CoinPoints == 100
GhostPoints == 50

WallData ==
  << <<50, 50, 1000, 5>>,   <<1050, 50, 5, 550>>, <<50, 700, 1000, 5>>,
     <<50, 50, 5, 650>>,    <<150, 150, 5, 550>>, <<250, 150, 700, 5>>,
     <<250, 150, 5, 250>>,  <<250, 500, 5, 100>>, <<250, 600, 100, 5>>,
     <<350, 500, 5, 100>>,  <<350, 250, 5, 150>>, <<450, 150, 5, 450>>,
     <<450, 600, 300, 5>>,  <<550, 500, 300, 5>>, <<850, 500, 5, 200>>,
     <<550, 150, 5, 250>>,  <<650, 250, 5, 250>>, <<750, 150, 5, 250>>,
     <<850, 250, 5, 150>>,  <<850, 250, 200, 5>>, <<950, 400, 5, 200>> >>

MonsterData ==
  << [pos |-> <<220, 100>>,  speed |-> 23, direction |-> "horizontal"],
     [pos |-> <<200, 400>>,  speed |-> 21, direction |-> "vertical"],
     [pos |-> <<300, 450>>,  speed |-> 19, direction |-> "horizontal"],
     [pos |-> <<400, 225>>,  speed |-> 20, direction |-> "vertical"],
     [pos |-> <<490, 650>>,  speed |-> 22, direction |-> "horizontal"],
     [pos |-> <<500, 200>>,  speed |-> 20, direction |-> "vertical"],
     [pos |-> <<630, 550>>,  speed |-> 24, direction |-> "horizontal"],
     [pos |-> <<600, 450>>,  speed |-> 21, direction |-> "vertical"],
     [pos |-> <<700, 450>>,  speed |-> 19, direction |-> "horizontal"],
     [pos |-> <<800, 200>>,  speed |-> 19, direction |-> "horizontal"],
     [pos |-> <<900, 300>>,  speed |-> 21, direction |-> "horizontal"],
     [pos |-> <<1000, 625>>, speed |-> 20, direction |-> "vertical"] >>

CoinData ==
  << <<100, 100>>, <<100, 535>>, <<100, 625>>, <<200, 200>>, <<200, 505>>,
     <<200, 625>>, <<300, 100>>, <<300, 200>>, <<300, 415>>, <<300, 625>>,
     <<400, 335>>, <<400, 425>>, <<500, 200>>, <<500, 100>>, <<500, 425>>,
     <<500, 625>>, <<600, 415>>, <<600, 525>>, <<700, 200>>, <<800, 200>>,
     <<800, 425>>, <<800, 535>>, <<900, 325>>, <<900, 425>>, <<900, 625>>,
     <<1000, 100>>, <<1000, 200>>, <<1000, 425>> >>

NWalls == Len(WallData)
NMonsters == Len(MonsterData)
NCoins == Len(CoinData)

\* ------------------------------------------------------------------------
\* Geometry: pygame.Rect
\* ------------------------------------------------------------------------
Rect(x, y, w, h) == [x |-> x, y |-> y, w |-> w, h |-> h]

\* image.get_rect(center=position)
CenteredRect(pos, w, h) == Rect(pos[1] - (w \div 2), pos[2] - (h \div 2), w, h)

\* rect.centerx, rect.centery
CenterOf(r) == <<r.x + (r.w \div 2), r.y + (r.h \div 2)>>

\* Rect.colliderect: strict overlap on both axes
colliderect(a, b) ==
  /\ a.x < b.x + b.w
  /\ b.x < a.x + a.w
  /\ a.y < b.y + b.h
  /\ b.y < a.y + a.h

WallRect(i) == Rect(WallData[i][1], WallData[i][2], WallData[i][3], WallData[i][4])

\* pygame.sprite.spritecollideany(sprite, walls)
HitsWall(r) == \E i \in 1..NWalls : colliderect(r, WallRect(i))

CoinRect(i) == CenteredRect(CoinData[i], CoinW, CoinH)
PlayerRect(p) == Rect(p.x, p.y, PlayerW, PlayerH)
MonsterRect(m) == Rect(m.x, m.y, MonsterW, MonsterH)
PortalRect(q) == Rect(q.x, q.y, PortalW, PortalH)

\* int(value): truncation toward zero of a value given in tenths
TruncTenths(n) == IF n >= 0 THEN n \div 10 ELSE -((-n) \div 10)

\* rect.x += speed   (speed in tenths of a pixel)
MoveBy(coord, speed) == TruncTenths(coord * 10 + speed)

\* ------------------------------------------------------------------------
\* Scoreboard
\* ------------------------------------------------------------------------
NewScoreboard ==
  [coins_collected |-> 0, time_left |-> StartTime, ghosts_busted |-> 0,
   portals_remaining |-> StartPortals, points |-> 0]

new_portal(sb) == [sb EXCEPT !.portals_remaining = @ - 1]
ghost_busted(sb) == [sb EXCEPT !.ghosts_busted = @ + 1]
coin_collected(sb) == [sb EXCEPT !.coins_collected = @ + 1]

\* a time check that is one update late
is_time_up_late(sb) == sb.time_left < -1

\* time_left <= 0.  The code subtracts the double 1/60 from 100.0; after
\* 6000 subtractions the double is still positive (4.4e-12), so the value
\* of 0 sixtieths is not yet "up": the first non-positive double is the one
\* after 6001 subtractions.
is_time_up(sb) == sb.time_left < 0

Points(sb) == sb.coins_collected * CoinPoints + sb.ghosts_busted * GhostPoints

\* ------------------------------------------------------------------------
\* World: the value of the module-level globals plus current_game_state
\* ------------------------------------------------------------------------
NewMonster(i) ==
  LET r == CenteredRect(MonsterData[i].pos, MonsterW, MonsterH)
  IN [x |-> r.x, y |-> r.y, speed |-> MonsterData[i].speed, alive |-> TRUE]

NewPlayer ==
  LET r == CenteredRect(PlayerSpawn, PlayerW, PlayerH)
  IN [x |-> r.x, y |-> r.y]

\* a rebuild that keeps the portals group of the previous session
initialise_game_objects_keepPortals(w) ==
  [state |-> w.state,
   reason |-> "",
   player |-> NewPlayer,
   monsters |-> [i \in 1..NMonsters |-> NewMonster(i)],
   coins |-> 1..NCoins,
   portals |-> w.portals,
   scoreboard |-> NewScoreboard]

\* initialise_game_objects(): everything is rebuilt, the state is kept
initialise_game_objects(w) ==
  [state |-> w.state,
   reason |-> "",
   player |-> NewPlayer,
   monsters |-> [i \in 1..NMonsters |-> NewMonster(i)],
   coins |-> 1..NCoins,
   portals |-> <<>>,
   scoreboard |-> NewScoreboard]

\* a state setter that forgets the reason
set_game_state_noReason(w, new_state, reason) ==
  [w EXCEPT !.state = new_state]

\* set_game_state(new_state, reason)
set_game_state(w, new_state, reason) ==
  [w EXCEPT !.state = new_state,
            !.reason = IF new_state = GAME_STATE_GAME_OVER THEN reason ELSE @]

\* ------------------------------------------------------------------------
\* Player.update(keys, walls, coins, set_game_state)
\* ------------------------------------------------------------------------
K_LEFT == "K_LEFT"
K_RIGHT == "K_RIGHT"
K_UP == "K_UP"
K_DOWN == "K_DOWN"

HitCoins(w, p) == {c \in w.coins : colliderect(PlayerRect(p), CoinRect(c))}

\* a move resolved in one piece: any overlap reverts both coordinates
PlayerMove_revertBoth(w, keys) ==
  LET original_x == w.player.x
      original_y == w.player.y
      moved_x == IF K_LEFT \in keys THEN original_x - PlayerSpeed
                 ELSE IF K_RIGHT \in keys THEN original_x + PlayerSpeed
                 ELSE original_x
      moved_y == IF K_UP \in keys THEN original_y - PlayerSpeed
                 ELSE IF K_DOWN \in keys THEN original_y + PlayerSpeed
                 ELSE original_y
      p == IF HitsWall(Rect(moved_x, moved_y, PlayerW, PlayerH))
           THEN [x |-> original_x, y |-> original_y]
           ELSE [x |-> moved_x, y |-> moved_y]
      hit == HitCoins(w, p)
  IN [w EXCEPT !.player = p,
               !.coins = @ \ hit,
               !.scoreboard = IF hit # {} THEN coin_collected(@) ELSE @]

\* a move whose coin test leaves the Coins it hits in the group
\* (spritecollide with dokill False)
PlayerMove_coinsKept(w, keys) ==
  LET original_x == w.player.x
      original_y == w.player.y
      moved_x == IF K_LEFT \in keys THEN original_x - PlayerSpeed
                 ELSE IF K_RIGHT \in keys THEN original_x + PlayerSpeed
                 ELSE original_x
      x == IF HitsWall(Rect(moved_x, original_y, PlayerW, PlayerH))
           THEN original_x ELSE moved_x
      moved_y == IF K_UP \in keys THEN original_y - PlayerSpeed
                 ELSE IF K_DOWN \in keys THEN original_y + PlayerSpeed
                 ELSE original_y
      y == IF HitsWall(Rect(x, moved_y, PlayerW, PlayerH))
           THEN original_y ELSE moved_y
      p == [x |-> x, y |-> y]
      hit == HitCoins(w, p)
  IN [w EXCEPT !.player = p,
               !.scoreboard = IF hit # {} THEN coin_collected(@) ELSE @]

\* the movement, wall and coin part of Player.update
PlayerMove(w, keys) ==
  LET original_x == w.player.x
      original_y == w.player.y
      moved_x == IF K_LEFT \in keys THEN original_x - PlayerSpeed
                 ELSE IF K_RIGHT \in keys THEN original_x + PlayerSpeed
                 ELSE original_x
      x == IF HitsWall(Rect(moved_x, original_y, PlayerW, PlayerH))
           THEN original_x ELSE moved_x
      moved_y == IF K_UP \in keys THEN original_y - PlayerSpeed
                 ELSE IF K_DOWN \in keys THEN original_y + PlayerSpeed
                 ELSE original_y
      y == IF HitsWall(Rect(x, moved_y, PlayerW, PlayerH))
           THEN original_y ELSE moved_y
      p == [x |-> x, y |-> y]
      hit == HitCoins(w, p)
  IN [w EXCEPT !.player = p,
               !.coins = @ \ hit,
               !.scoreboard = IF hit # {} THEN coin_collected(@) ELSE @]

\* a Player.update that tests the exit line after the move
PlayerUpdate_exitAfterMove(w, keys) ==
  LET w1 == PlayerMove(w, keys)
  IN IF w1.player.x + PlayerW > ExitLine
     THEN set_game_state(w1, GAME_STATE_GAME_OVER, REASON_EXIT)
     ELSE w1

\* a Player.update that records the exit and still moves the Player
PlayerUpdate_exitAndMove(w, keys) ==
  IF w.player.x + PlayerW > ExitLine
  THEN set_game_state(PlayerMove(w, keys), GAME_STATE_GAME_OVER, REASON_EXIT)
  ELSE PlayerMove(w, keys)

PlayerUpdate(w, keys) ==
  IF w.player.x + PlayerW > ExitLine
  THEN set_game_state(w, GAME_STATE_GAME_OVER, REASON_EXIT)
  ELSE PlayerMove(w, keys)

\* ------------------------------------------------------------------------
\* Monster.update(player, walls, portals, set_game_state)
\* ------------------------------------------------------------------------
\* indices of the portals a rectangle overlaps
HitPortals(portals, r) ==
  {k \in 1..Len(portals) : colliderect(r, PortalRect(portals[k]))}

\* the sequence without the elements at the given indices (sprite.kill())
RECURSIVE RemoveAt(_, _)
RemoveAt(seq, idx) ==
  IF seq = <<>> THEN <<>>
  ELSE LET n == Len(seq)
           front == RemoveAt(SubSeq(seq, 1, n - 1), idx)
       IN IF n \in idx THEN front ELSE Append(front, seq[n])

\* a bounce that reverses the speed without reverting the move
MonsterMove_noRevert(m, direction) ==
  IF direction = "horizontal"
  THEN LET moved == [m EXCEPT !.x = MoveBy(m.x, m.speed)]
       IN IF HitsWall(MonsterRect(moved))
          THEN [moved EXCEPT !.speed = -m.speed] ELSE moved
  ELSE IF direction = "vertical"
  THEN LET moved == [m EXCEPT !.y = MoveBy(m.y, m.speed)]
       IN IF HitsWall(MonsterRect(moved))
          THEN [moved EXCEPT !.speed = -m.speed] ELSE moved
  ELSE m

\* a bounce that puts the Monster back on both axes, one pixel off its lane
MonsterMove_offLane(m, direction) ==
  IF direction = "horizontal"
  THEN LET moved == [m EXCEPT !.x = MoveBy(m.x, m.speed)]
       IN IF HitsWall(MonsterRect(moved))
          THEN [m EXCEPT !.speed = -m.speed, !.y = @ + 1] ELSE moved
  ELSE IF direction = "vertical"
  THEN LET moved == [m EXCEPT !.y = MoveBy(m.y, m.speed)]
       IN IF HitsWall(MonsterRect(moved))
          THEN [m EXCEPT !.speed = -m.speed, !.x = @ + 1] ELSE moved
  ELSE m

\* the move along the monster's axis, reverted and reversed on a wall
MonsterMove(m, direction) ==
  IF direction = "horizontal"
  THEN LET moved == [m EXCEPT !.x = MoveBy(m.x, m.speed)]
       IN IF HitsWall(MonsterRect(moved))
          THEN [m EXCEPT !.speed = -m.speed] ELSE moved
  ELSE IF direction = "vertical"
  THEN LET moved == [m EXCEPT !.y = MoveBy(m.y, m.speed)]
       IN IF HitsWall(MonsterRect(moved))
          THEN [m EXCEPT !.speed = -m.speed] ELSE moved
  ELSE m

\* an update that leaves the speed of a Monster that caught the Player
MonsterUpdate_keepSpeed(w, i) ==
  LET m == w.monsters[i]
  IN IF colliderect(PlayerRect(w.player), MonsterRect(m))
     THEN set_game_state(w, GAME_STATE_GAME_OVER, REASON_GHOST)
     ELSE
       LET moved == MonsterMove(m, MonsterData[i].direction)
           hit == HitPortals(w.portals, MonsterRect(moved))
       IN IF hit # {}
          THEN [w EXCEPT !.monsters[i] = [moved EXCEPT !.alive = FALSE],
                         !.portals = RemoveAt(@, hit),
                         !.scoreboard = ghost_busted(@)]
          ELSE [w EXCEPT !.monsters[i] = moved]

\* an update that looks for Portals before the Monster moves
MonsterUpdate_checkBeforeMove(w, i) ==
  LET m == w.monsters[i]
  IN IF colliderect(PlayerRect(w.player), MonsterRect(m))
     THEN set_game_state([w EXCEPT !.monsters[i].speed = 0],
                         GAME_STATE_GAME_OVER, REASON_GHOST)
     ELSE
       LET moved == MonsterMove(m, MonsterData[i].direction)
           hit == HitPortals(w.portals, MonsterRect(m))
       IN IF hit # {}
          THEN [w EXCEPT !.monsters[i] = [moved EXCEPT !.alive = FALSE],
                         !.portals = RemoveAt(@, hit),
                         !.scoreboard = ghost_busted(@)]
          ELSE [w EXCEPT !.monsters[i] = moved]

\* an update that counts a bust for every Portal the Monster overlaps
MonsterUpdate_countsPortals(w, i) ==
  LET m == w.monsters[i]
  IN IF colliderect(PlayerRect(w.player), MonsterRect(m))
     THEN set_game_state([w EXCEPT !.monsters[i].speed = 0],
                         GAME_STATE_GAME_OVER, REASON_GHOST)
     ELSE
       LET moved == MonsterMove(m, MonsterData[i].direction)
           hit == HitPortals(w.portals, MonsterRect(moved))
       IN IF hit # {}
          THEN [w EXCEPT !.monsters[i] = [moved EXCEPT !.alive = FALSE],
                         !.portals = RemoveAt(@, hit),
                         !.scoreboard.ghosts_busted = @ + Cardinality(hit)]
          ELSE [w EXCEPT !.monsters[i] = moved]

MonsterUpdate(w, i) ==
  LET m == w.monsters[i]
  IN IF colliderect(PlayerRect(w.player), MonsterRect(m))
     THEN set_game_state([w EXCEPT !.monsters[i].speed = 0],
                         GAME_STATE_GAME_OVER, REASON_GHOST)
     ELSE
       LET moved == MonsterMove(m, MonsterData[i].direction)
           hit == HitPortals(w.portals, MonsterRect(moved))
       IN IF hit # {}
          THEN [w EXCEPT !.monsters[i] = [moved EXCEPT !.alive = FALSE],
                         !.portals = RemoveAt(@, hit),
                         !.scoreboard = ghost_busted(@)]
          ELSE [w EXCEPT !.monsters[i] = moved]

\* monsters_group.update(...): every sprite of the group, in creation order
\* (the updates of the sprites i..n of the group)
RECURSIVE MonstersUpdateRange(_, _, _)
MonstersUpdateRange(w, i, n) ==
  IF i > n THEN w
  ELSE MonstersUpdateRange(IF w.monsters[i].alive THEN MonsterUpdate(w, i) ELSE w,
                           i + 1, n)

MonstersUpdate(w) == MonstersUpdateRange(w, 1, NMonsters)

\* ------------------------------------------------------------------------
\* Portal.update(monsters)
\* ------------------------------------------------------------------------
HitMonsters(w, q) ==
  {i \in 1..NMonsters : /\ w.monsters[i].alive
                        /\ colliderect(PortalRect(q), MonsterRect(w.monsters[i]))}

PortalUpdate(w, q) ==
  LET hit == HitMonsters(w, q)
  IN IF hit # {}
     THEN [w EXCEPT !.monsters = [i \in 1..NMonsters |->
                                    IF i \in hit THEN [@[i] EXCEPT !.alive = FALSE]
                                    ELSE @[i]],
                    !.scoreboard = ghost_busted(@)]
     ELSE w

\* portals_group.update(monsters_group)
RECURSIVE PortalsUpdateFrom(_, _, _)
PortalsUpdateFrom(w, portals, k) ==
  IF k > Len(portals) THEN w
  ELSE PortalsUpdateFrom(PortalUpdate(w, portals[k]), portals, k + 1)

PortalsUpdate(w) == PortalsUpdateFrom(w, w.portals, 1)

\* ------------------------------------------------------------------------
\* Scoreboard.update(set_game_state)
\* ------------------------------------------------------------------------
\* an update that counts the time up
ScoreboardUpdate_countUp(w) ==
  LET ticked == [w.scoreboard EXCEPT !.time_left = @ + 1]
      sb == [ticked EXCEPT !.points = Points(ticked)]
      w1 == [w EXCEPT !.scoreboard = sb]
  IN IF is_time_up(sb)
     THEN set_game_state(w1, GAME_STATE_GAME_OVER, REASON_TIME)
     ELSE w1

\* an update that never looks at the time
ScoreboardUpdate_noCheck(w) ==
  LET ticked == [w.scoreboard EXCEPT !.time_left = @ - 1]
      sb == [ticked EXCEPT !.points = Points(ticked)]
  IN [w EXCEPT !.scoreboard = sb]

ScoreboardUpdate(w) ==
  LET ticked == [w.scoreboard EXCEPT !.time_left = @ - 1]
      sb == [ticked EXCEPT !.points = Points(ticked)]
      w1 == [w EXCEPT !.scoreboard = sb]
  IN IF is_time_up(sb)
     THEN set_game_state(w1, GAME_STATE_GAME_OVER, REASON_TIME)
     ELSE w1

\* ------------------------------------------------------------------------
\* main(): the Playing branch of the state logic
\* ------------------------------------------------------------------------
AfterPlayer(w, keys) == PlayerUpdate(w, keys)

\* a Monster phase that runs whatever the Player phase has done
AfterMonsters_always(w, keys) == MonstersUpdate(AfterPlayer(w, keys))

AfterMonsters(w, keys) ==
  LET w1 == AfterPlayer(w, keys)
  IN IF w1.state = GAME_STATE_PLAYING THEN MonstersUpdate(w1) ELSE w1

AfterPortals(w, keys) ==
  LET w2 == AfterMonsters(w, keys)
  IN IF w2.state = GAME_STATE_PLAYING THEN PortalsUpdate(w2) ELSE w2

PlayingLogic(w, keys) ==
  LET w3 == AfterPortals(w, keys)
  IN IF w3.state = GAME_STATE_PLAYING THEN ScoreboardUpdate(w3) ELSE w3

\* ------------------------------------------------------------------------
\* main(): event handling
\* ------------------------------------------------------------------------
QUIT == "QUIT"
K_q == "K_q"
K_r == "K_r"
K_SPACE == "K_SPACE"
K_other == "K_other"
Events == {QUIT, K_q, K_r, K_SPACE, K_other}

\* a Portal whose construction does not spend a portal
PlacePortal_noSpend(w) ==
  LET r == CenteredRect(CenterOf(PlayerRect(w.player)), PortalW, PortalH)
  IN [w EXCEPT !.portals = Append(@, [x |-> r.x, y |-> r.y])]

\* Portal("door.png", player centre): Portal.__init__ spends one portal
PlacePortal(w) ==
  LET r == CenteredRect(CenterOf(PlayerRect(w.player)), PortalW, PortalH)
  IN [w EXCEPT !.portals = Append(@, [x |-> r.x, y |-> r.y]),
               !.scoreboard = new_portal(@)]

Restart(w) == set_game_state(initialise_game_objects(w), GAME_STATE_PLAYING, "")

\* a KEYDOWN branch in which the GameOver screen also restarts on SPACE
HandleEvent_spaceRestarts(w, e) ==
  IF e = QUIT THEN w
  ELSE IF w.state = GAME_STATE_START
  THEN IF e = K_SPACE \/ e = K_r THEN Restart(w) ELSE w
  ELSE IF w.state = GAME_STATE_PLAYING
  THEN LET w1 == IF e = K_r THEN Restart(w) ELSE w
       IN IF e = K_SPACE /\ w1.scoreboard.portals_remaining > 0
          THEN PlacePortal(w1) ELSE w1
  ELSE IF e = K_r \/ e = K_SPACE THEN Restart(w) ELSE w

\* a KEYDOWN branch whose state tests are separate ifs: an event that
\* begins the game is handled again by the Playing branch
HandleEvent_fallsThrough(w, e) ==
  IF e = QUIT THEN w
  ELSE
    LET w0 == IF w.state = GAME_STATE_START /\ (e = K_SPACE \/ e = K_r)
              THEN Restart(w) ELSE w
        w1 == IF w0.state = GAME_STATE_PLAYING /\ w.state # GAME_STATE_GAME_OVER
                 /\ e = K_r
              THEN Restart(w0) ELSE w0
        w2 == IF w1.state = GAME_STATE_PLAYING /\ w.state # GAME_STATE_GAME_OVER
                 /\ e = K_SPACE /\ w1.scoreboard.portals_remaining > 0
              THEN PlacePortal(w1) ELSE w1
    IN IF w.state = GAME_STATE_GAME_OVER /\ e = K_r THEN Restart(w2) ELSE w2

\* the body of the KEYDOWN branch for one event
HandleEvent(w, e) ==
  IF e = QUIT THEN w
  ELSE IF w.state = GAME_STATE_START
  THEN IF e = K_SPACE \/ e = K_r THEN Restart(w) ELSE w
  ELSE IF w.state = GAME_STATE_PLAYING
  THEN LET w1 == IF e = K_r THEN Restart(w) ELSE w
       IN IF e = K_SPACE /\ w1.scoreboard.portals_remaining > 0
          THEN PlacePortal(w1) ELSE w1
  ELSE IF e = K_r THEN Restart(w) ELSE w

\* for event in pygame.event.get()
RECURSIVE HandleEvents(_, _)
HandleEvents(w, queue) ==
  IF queue = <<>> THEN w
  ELSE HandleEvents(HandleEvent(w, Head(queue)), Tail(queue))

\* an event loop that ends the frame loop on the window's QUIT event only
StillRunning_windowOnly(r, queue) ==
  r /\ \A k \in 1..Len(queue) : queue[k] # QUIT

\* running after the event loop
StillRunning(r, queue) ==
  r /\ \A k \in 1..Len(queue) : queue[k] # QUIT /\ queue[k] # K_q

\* ------------------------------------------------------------------------
\* Input: what the player does.  In Start and GameOver any queue of at most
\* MaxQueue events, at most one of them a begin or restart key, may arrive
\* in a frame.  In Playing the held keys and the events follow one of the
\* schedules of InputSchedule: a node holds the keys for len frames, its
\* events arrive in its first frame, and one of its successors follows; a
\* schedule without successor ends in a restart or a quit.  A restart (K_r)
\* may arrive in any Playing frame, a quit (K_q) in the first frame of any
\* node.
\* ------------------------------------------------------------------------
MaxQueue == 2

Node(len, keys, events, next) ==
  [len |-> len, keys |-> keys, events |-> events, next |-> next]

\* every combination of held direction keys
KeySets ==
  << {}, {K_LEFT}, {K_RIGHT},
     {K_UP}, {K_DOWN}, {K_LEFT, K_RIGHT},
     {K_LEFT, K_UP}, {K_LEFT, K_DOWN}, {K_RIGHT, K_UP},
     {K_RIGHT, K_DOWN}, {K_UP, K_DOWN}, {K_LEFT, K_RIGHT, K_UP},
     {K_LEFT, K_RIGHT, K_DOWN}, {K_LEFT, K_UP, K_DOWN}, {K_RIGHT, K_UP, K_DOWN},
     {K_LEFT, K_RIGHT, K_UP, K_DOWN} >>

\* the frames a combination of KeySets is held from the spawn position
HoldFrames == 40

InputSchedule ==
  << Node(5773, {}, <<>>, {29, 30}),                           \* 1 no input
     Node(150, {K_UP, K_RIGHT}, <<>>, {}),                     \* 2
     Node(2, {}, <<>>, {2}),                                   \* 3
     Node(130, {K_DOWN}, <<>>, {}),                            \* 4
     Node(1, {}, <<K_SPACE, K_SPACE>>, {6}),                   \* 5
     Node(1, {K_LEFT, K_RIGHT, K_UP, K_DOWN}, <<K_SPACE, K_SPACE>>, {7}),
     Node(1, {K_RIGHT, K_DOWN}, <<K_SPACE, K_SPACE>>, {}),     \* 7
     Node(100, {K_UP, K_RIGHT}, <<>>, {9, 25}),                \* 8
     Node(1, {}, <<K_SPACE>>, {10}),                           \* 9
     Node(520, {}, <<>>, {11}),                                \* 10
     Node(261, {K_UP, K_RIGHT}, <<>>, {12}),                   \* 11
     Node(160, {}, <<>>, {13}),                                \* 12
     Node(60, {K_DOWN, K_LEFT}, <<>>, {14}),                   \* 13
     Node(1, {}, <<K_SPACE>>, {15}),                           \* 14
     Node(60, {}, <<>>, {16}),                                 \* 15
     Node(136, {K_DOWN, K_LEFT}, <<>>, {17}),                  \* 16
     Node(30, {K_DOWN, K_RIGHT}, <<>>, {18}),                  \* 17
     Node(1, {}, <<K_SPACE>>, {19}),                           \* 18
     Node(60, {}, <<>>, {20}),                                 \* 19
     Node(96, {K_DOWN, K_RIGHT}, <<>>, {21, 22, 31, 32}),      \* 20
     Node(80, {}, <<>>, {23}),                                 \* 21
     Node(336, {}, <<>>, {23}),                                \* 22
     Node(46, {K_DOWN, K_RIGHT}, <<>>, {}),                    \* 23
     Node(3, {K_UP}, <<K_q, K_SPACE>>, {}),                    \* 24
     Node(1, {}, <<K_SPACE, K_SPACE>>, {26}),                  \* 25
     Node(520, {}, <<>>, {}),                                  \* 26
     Node(1, {}, <<>>, {5}),                                   \* 27
     Node(1, {}, <<>>, {24}),                                  \* 28
     Node(229, {}, <<>>, {}),                                  \* 29
     Node(230, {K_UP, K_RIGHT}, <<>>, {}),                     \* 30
     Node(335, {}, <<>>, {23}),                                \* 31
     Node(73, {}, <<>>, {33}),                                 \* 32
     Node(11, {K_DOWN, K_RIGHT}, <<>>, {34}),                  \* 33
     Node(1, {}, <<K_SPACE>>, {35}),                           \* 34
     Node(11, {K_LEFT}, <<>>, {36}),                           \* 35
     Node(4382, {}, <<>>, {23, 37}),                           \* 36
     Node(1, {}, <<>>, {23}) >>                                \* 37
  \o [k \in 1..Len(KeySets) |-> Node(HoldFrames, KeySets[k], <<>>, {})]

Roots == {1, 2, 3, 4, 8, 27, 28} \cup {37 + k : k \in 1..Len(KeySets)}

FreeQueues ==
  {q \in UNION {[1..n -> Events] : n \in 0..MaxQueue} :
     Cardinality({k \in 1..Len(q) : q[k] \in {K_SPACE, K_r}}) <= 1}

\* events: the queue polled in the current frame (empty between frames);
\* step, left: the node of InputSchedule being played and its frames left
VARIABLES current_game_state, game_over_reason_message, running, pc,
          player, monsters, coins, portals, scoreboard, events, step, left

vars == <<current_game_state, game_over_reason_message, running, pc,
          player, monsters, coins, portals, scoreboard, events, step, left>>

World ==
  [state |-> current_game_state, reason |-> game_over_reason_message,
   player |-> player, monsters |-> monsters, coins |-> coins,
   portals |-> portals, scoreboard |-> scoreboard]

SetWorld(w) ==
  /\ current_game_state' = w.state
  /\ game_over_reason_message' = w.reason
  /\ player' = w.player
  /\ monsters' = w.monsters
  /\ coins' = w.coins
  /\ portals' = w.portals
  /\ scoreboard' = w.scoreboard

\* an event of the queue (re)builds the World
Restarts(w, queue) ==
  \E k \in 1..Len(queue) :
     \/ queue[k] = K_r
     \/ queue[k] = K_SPACE /\ w.state = GAME_STATE_START

\* the events a Playing frame may receive
PlayingQueues ==
  IF step = 0 THEN {<<K_r>>, <<K_q>>, <<QUIT>>}
  ELSE IF left = InputSchedule[step].len
  THEN {InputSchedule[step].events, <<K_r>>, <<K_q>>}
  ELSE {<<>>, <<K_r>>}

\* main() up to the first frame
Init ==
  /\ current_game_state = GAME_STATE_START
  /\ game_over_reason_message = ""
  /\ running = TRUE
  /\ pc = "events"
  /\ player = NewPlayer
  /\ monsters = [i \in 1..NMonsters |-> NewMonster(i)]
  /\ coins = 1..NCoins
  /\ portals = <<>>
  /\ scoreboard = NewScoreboard
  /\ events = <<>>
  /\ step = 0
  /\ left = 0

\* for event in pygame.event.get(): ...   (the whole queue of one frame)
EventLoop(queue) ==
  /\ pc = "events"
  /\ LET w == HandleEvents(World, queue)
     IN /\ SetWorld(w)
        /\ running' = StillRunning(running, queue)
        /\ events' = queue
        /\ IF Restarts(World, queue)
           THEN \E r \in Roots : step' = r /\ left' = InputSchedule[r].len
           ELSE UNCHANGED <<step, left>>
  /\ pc' = "logic"

\* events polled while no session is running
PollIdle ==
  /\ current_game_state # GAME_STATE_PLAYING
  /\ \E queue \in FreeQueues : EventLoop(queue)

\* events polled during a session
PollPlaying ==
  /\ current_game_state = GAME_STATE_PLAYING
  /\ \E queue \in PlayingQueues : EventLoop(queue)

\* end of the loop body: while running
EndFrame ==
  /\ pc' = IF running THEN "events" ELSE "done"
  /\ events' = <<>>

\* current_game_state == GAME_STATE_START: draw_start_screen()
StartScreen ==
  /\ pc = "logic"
  /\ current_game_state = GAME_STATE_START
  /\ EndFrame
  /\ UNCHANGED <<current_game_state, game_over_reason_message, running,
                 player, monsters, coins, portals, scoreboard, step, left>>

\* pygame.key.get_pressed() in this frame
ScheduledKeys == IF step = 0 THEN {} ELSE InputSchedule[step].keys

\* current_game_state == GAME_STATE_PLAYING: the tick
PlayingTick ==
  /\ pc = "logic"
  /\ current_game_state = GAME_STATE_PLAYING
  /\ \E keys \in {ScheduledKeys} :
       LET w == PlayingLogic(World, keys)
       IN /\ SetWorld(w)
          /\ IF w.state # GAME_STATE_PLAYING \/ step = 0
             THEN step' = 0 /\ left' = 0
             ELSE IF left > 1
             THEN step' = step /\ left' = left - 1
             ELSE IF InputSchedule[step].next = {}
             THEN step' = 0 /\ left' = 0
             ELSE \E n \in InputSchedule[step].next :
                    step' = n /\ left' = InputSchedule[n].len
  /\ EndFrame
  /\ UNCHANGED running

\* a GameOver frame that keeps the monsters moving behind the screen
GameOverScreen_simulates ==
  /\ pc = "logic"
  /\ current_game_state = GAME_STATE_GAME_OVER
  /\ monsters' = [i \in 1..NMonsters |->
                    IF monsters[i].alive
                    THEN MonsterMove(monsters[i], MonsterData[i].direction)
                    ELSE monsters[i]]
  /\ EndFrame
  /\ UNCHANGED <<current_game_state, game_over_reason_message, running,
                 player, coins, portals, scoreboard, step, left>>

\* current_game_state == GAME_STATE_GAME_OVER: draw_game_over_screen(reason)
GameOverScreen ==
  /\ pc = "logic"
  /\ current_game_state = GAME_STATE_GAME_OVER
  /\ EndFrame
  /\ UNCHANGED <<current_game_state, game_over_reason_message, running,
                 player, monsters, coins, portals, scoreboard, step, left>>

Next ==
  \/ PollIdle
  \/ PollPlaying
  \/ StartScreen
  \/ PlayingTick
  \/ GameOverScreen

Spec == Init /\ [][Next]_vars

\* ========================================================================
\* Properties
\* ========================================================================
\* the step about to be taken is the tick of a Playing frame
TickStep == pc = "logic" /\ current_game_state = GAME_STATE_PLAYING

\* the step about to be taken is the event loop of a frame
EventStep == pc = "events"

\* the frame loop is between two frames, or has ended
FrameEnd == pc \in {"events", "done"}

PlayerRight(p) == p.x + PlayerW

\* the live monsters that overlap the player
Catchers(w) ==
  {i \in 1..NMonsters : /\ w.monsters[i].alive
                        /\ colliderect(PlayerRect(w.player), MonsterRect(w.monsters[i]))}

Min(S) == CHOOSE m \in S : \A n \in S : m <= n

\* ------------------------------------------------------------------------
\* C1  The game state moves only along Start -> Playing (begin input),
\*     Playing -> GameOver (exit reached, caught by a monster, time expired)
\*     and GameOver -> Playing (restart input); a restart in Playing keeps
\*     the state Playing.
\* ------------------------------------------------------------------------
C1_StateEdges ==
  [][ /\ current_game_state \in {GAME_STATE_START, GAME_STATE_PLAYING,
                                 GAME_STATE_GAME_OVER}
      /\ (current_game_state = GAME_STATE_START
            /\ current_game_state' # GAME_STATE_START)
         => /\ current_game_state' = GAME_STATE_PLAYING
            /\ EventStep
            /\ \E k \in 1..Len(events') : events'[k] \in {K_SPACE, K_r}
      /\ (current_game_state = GAME_STATE_PLAYING
            /\ current_game_state' # GAME_STATE_PLAYING)
         => /\ current_game_state' = GAME_STATE_GAME_OVER
            /\ TickStep
            /\ \/ /\ game_over_reason_message' = REASON_EXIT
                  /\ PlayerRight(player) > ExitLine
               \/ /\ game_over_reason_message' = REASON_GHOST
                  /\ Catchers(World') # {}
               \/ /\ game_over_reason_message' = REASON_TIME
                  /\ scoreboard'.time_left = -1
      /\ (current_game_state = GAME_STATE_GAME_OVER
            /\ current_game_state' # GAME_STATE_GAME_OVER)
         => /\ current_game_state' = GAME_STATE_PLAYING
            /\ EventStep
            /\ \E k \in 1..Len(events') : events'[k] = K_r
    ]_vars

\* a session has ended at the exit
C1_Witness ==
  /\ current_game_state = GAME_STATE_GAME_OVER
  /\ game_over_reason_message = REASON_EXIT
  /\ pc = "events"

\* ------------------------------------------------------------------------
\* C2  Every begin or restart input leaves the fresh World: the Player at
\*     its spawn position, 21 Walls, the 12 Monsters at their initial
\*     positions and speeds, 28 Coins, no Portal, the Scoreboard
\*     {0, 100.0, 0, 5, 0} and no GameOver reason.
\* ------------------------------------------------------------------------
\* the last event of the queue is a begin or restart input
EndsWithRestart(w, queue) ==
  /\ queue # <<>>
  /\ \/ queue[Len(queue)] = K_r
     \/ /\ queue[Len(queue)] = K_SPACE
        /\ w.state = GAME_STATE_START
        /\ \A k \in 1..(Len(queue) - 1) : queue[k] \notin {K_r, K_SPACE}

IsFreshWorld ==
  /\ player = [x |-> 75, y |-> 157]
  /\ NWalls = 21
  /\ DOMAIN monsters = 1..12
  /\ \A i \in 1..12 :
       /\ monsters[i].alive
       /\ monsters[i].speed = MonsterData[i].speed
       /\ CenterOf(MonsterRect(monsters[i])) = MonsterData[i].pos
  /\ coins = 1..28
  /\ portals = <<>>
  /\ scoreboard = [coins_collected |-> 0, time_left |-> 6000, ghosts_busted |-> 0,
                   portals_remaining |-> 5, points |-> 0]
  /\ game_over_reason_message = ""

C2_RestartIsFresh ==
  [][ (EventStep /\ EndsWithRestart(World, events'))
      => (IsFreshWorld' /\ current_game_state' = GAME_STATE_PLAYING) ]_vars

\* a restart input has just been handled
C2_Witness ==
  /\ pc = "logic"
  /\ events = <<K_r>>
  /\ IsFreshWorld

\* ------------------------------------------------------------------------
\* C3  Once GameOver has been triggered inside a Playing tick, the World is
\*     not mutated in the remainder of that tick.
\* ------------------------------------------------------------------------
\* the World at the moment the tick triggers GameOver
WorldAtTrigger(w, keys) ==
  LET w1 == AfterPlayer(w, keys)
  IN IF w1.state # GAME_STATE_PLAYING THEN w1
     ELSE IF Catchers(w1) # {}
     THEN MonstersUpdateRange(w1, 1, Min(Catchers(w1)))
     ELSE PlayingLogic(w, keys)

C3_FrozenAfterTrigger ==
  [][ (TickStep /\ current_game_state' = GAME_STATE_GAME_OVER)
      => World' = WorldAtTrigger(World, ScheduledKeys) ]_vars

\* ------------------------------------------------------------------------
\* C4  (as stated) If the Player's move in a Playing tick carries its right
\*     edge past x = 1050, the tick ends at once in GameOver with reason
\*     reached-exit and nothing else is mutated in that tick.
\* ------------------------------------------------------------------------
\* the Player phase of the tick about to run moves the Player across the line
Crossing ==
  /\ TickStep
  /\ PlayerRight(player) <= ExitLine
  /\ PlayerRight(AfterPlayer(World, ScheduledKeys).player) > ExitLine

C4_ExitAtCrossing ==
  [][ Crossing
      => World' = set_game_state(AfterPlayer(World, ScheduledKeys),
                                 GAME_STATE_GAME_OVER, REASON_EXIT) ]_vars

\* C4  (amended) The crossing itself triggers nothing: the tick of the
\*     crossing still runs its Monster, Portal and Scoreboard phases and
\*     never records reached-exit (it may record caught-by-monster); the
\*     exit is recorded by the Player phase of the next Playing tick, which
\*     starts with the right edge past the line.
C4_ExitAfterCrossing ==
  [][ /\ Crossing
         => /\ World' = PlayingLogic(World, ScheduledKeys)
            /\ PlayerRight(player') > ExitLine
            /\ game_over_reason_message' # REASON_EXIT
            /\ \/ /\ current_game_state' = GAME_STATE_PLAYING
                  /\ scoreboard'.time_left = scoreboard.time_left - 1
               \/ /\ current_game_state' = GAME_STATE_GAME_OVER
                  /\ game_over_reason_message' \in {REASON_GHOST, REASON_TIME}
      /\ (TickStep /\ PlayerRight(player) > ExitLine)
         => /\ current_game_state' = GAME_STATE_GAME_OVER
            /\ game_over_reason_message' = REASON_EXIT
    ]_vars

\* the Player has crossed the line and the session is still Playing
C4_Witness ==
  /\ current_game_state = GAME_STATE_PLAYING
  /\ PlayerRight(player) > ExitLine
  /\ pc = "events"

\* ------------------------------------------------------------------------
\* C5  At the end of every frame, points = coins_collected * 100 +
\*     ghosts_busted * 50.
\* ------------------------------------------------------------------------
C5_PointsInvariant ==
  FrameEnd => scoreboard.points = scoreboard.coins_collected * 100
                                  + scoreboard.ghosts_busted * 50

\* ------------------------------------------------------------------------
\* C6  (as stated) time_left after a Playing tick is never greater than
\*     time_left after the Playing tick of the frame before.
\* ------------------------------------------------------------------------
\* Between two frames of a session time_left is its value after the earlier
\* tick; the event loop of the later frame leaves time_left', and the later
\* tick takes one sixtieth off it.
C6_TimeNonIncreasing ==
  [][ (EventStep /\ current_game_state = GAME_STATE_PLAYING
                 /\ current_game_state' = GAME_STATE_PLAYING)
      => scoreboard'.time_left - 1 <= scoreboard.time_left ]_vars

\* C6  (amended) Within a session, that is as long as no restart input is
\*     handled, time_left never increases while the state is Playing, and
\*     every Playing tick that leaves the state Playing takes exactly one
\*     sixtieth off it.
C6_TimeNonIncreasingInSession ==
  [][ /\ (current_game_state = GAME_STATE_PLAYING
            /\ current_game_state' = GAME_STATE_PLAYING
            /\ ~(EventStep /\ \E k \in 1..Len(events') : events'[k] = K_r))
         => scoreboard'.time_left <= scoreboard.time_left
      /\ (TickStep /\ current_game_state' = GAME_STATE_PLAYING)
         => scoreboard'.time_left = scoreboard.time_left - 1
    ]_vars

\* a session that has run for several ticks
C6_Witness ==
  /\ current_game_state = GAME_STATE_PLAYING
  /\ pc = "events"
  /\ scoreboard.time_left <= 6000 - 3

\* ------------------------------------------------------------------------
\* C7  GameOver(time-expired) is triggered in exactly the tick in which
\*     time_left first becomes <= 0: a frame that ends in Playing has
\*     time_left > 0, and time_left <= 0 only in GameOver(time-expired).
\* ------------------------------------------------------------------------
\* the double time_left is > 0: the double standing at 0 sixtieths is
\* 100.0 minus 6000 times the double 1/60, which is 4.4e-12
TimeLeftPositive(sb) == sb.time_left >= 0

C7_TimeExpiry ==
  /\ [](/\ current_game_state = GAME_STATE_PLAYING => TimeLeftPositive(scoreboard)
        /\ ~TimeLeftPositive(scoreboard)
           => /\ current_game_state = GAME_STATE_GAME_OVER
              /\ game_over_reason_message = REASON_TIME)
  /\ [][ /\ (TickStep /\ ~TimeLeftPositive(scoreboard'))
            => /\ current_game_state' = GAME_STATE_GAME_OVER
               /\ game_over_reason_message' = REASON_TIME
         /\ (game_over_reason_message # REASON_TIME
               /\ game_over_reason_message' = REASON_TIME)
            => /\ TickStep
               /\ TimeLeftPositive(scoreboard)
               /\ ~TimeLeftPositive(scoreboard')
       ]_vars

\* the time of a session has run out
C7_Witness ==
  /\ current_game_state = GAME_STATE_GAME_OVER
  /\ game_over_reason_message = REASON_TIME
  /\ ~TimeLeftPositive(scoreboard)
  /\ pc = "events"

\* ------------------------------------------------------------------------
\* C8  A place-portal input in Playing is refused when portals_remaining is
\*     0 and otherwise adds one Portal at the Player's centre and takes 1
\*     off portals_remaining; portals_remaining stays in 0..5 and only
\*     decreases within a session.
\* ------------------------------------------------------------------------
RECURSIVE Count(_, _)
Count(queue, e) ==
  IF queue = <<>> THEN 0
  ELSE (IF Head(queue) = e THEN 1 ELSE 0) + Count(Tail(queue), e)

\* the Portal whose centre is the centre of the Player's box
PortalOn(p) == [x |-> (p.x + 25) - 25, y |-> (p.y + 43) - 35]

C8_PortalBudget ==
  /\ [](/\ scoreboard.portals_remaining \in 0..5
        /\ Len(portals) <= 5 - scoreboard.portals_remaining)
  /\ [][ /\ (EventStep /\ current_game_state = GAME_STATE_PLAYING
                       /\ Count(events', K_r) = 0)
            => LET asked == Count(events', K_SPACE)
                   placed == IF asked <= scoreboard.portals_remaining
                             THEN asked ELSE scoreboard.portals_remaining
               IN /\ scoreboard' = [scoreboard EXCEPT !.portals_remaining = @ - placed]
                  /\ Len(portals') = Len(portals) + placed
                  /\ SubSeq(portals', 1, Len(portals)) = portals
                  /\ \A k \in (Len(portals) + 1)..Len(portals') :
                       portals'[k] = PortalOn(player)
         /\ (scoreboard'.portals_remaining > scoreboard.portals_remaining)
            => (EventStep /\ Restarts(World, events'))
         /\ TickStep => scoreboard'.portals_remaining = scoreboard.portals_remaining
       ]_vars

\* the budget is spent and a further place-portal input has been refused
C8_Witness ==
  /\ pc = "logic"
  /\ current_game_state = GAME_STATE_PLAYING
  /\ step = 7
  /\ events = <<K_SPACE, K_SPACE>>
  /\ scoreboard.portals_remaining = 0
  /\ Len(portals) = 5

\* ------------------------------------------------------------------------
\* C9  When a Monster overlaps a Portal in a Playing tick, the Monster is
\*     removed, ghosts_busted increases by exactly 1 for it, and the Portal
\*     remains in the live set.
\* ------------------------------------------------------------------------
\* the monsters removed by the step
Removed == {i \in 1..NMonsters : monsters[i].alive /\ ~monsters'[i].alive}

C9_BustKeepsPortal ==
  [][ TickStep
      => /\ scoreboard'.ghosts_busted
              = scoreboard.ghosts_busted + Cardinality(Removed)
         /\ portals' = portals
         /\ current_game_state' = GAME_STATE_PLAYING
            => \A i \in 1..NMonsters :
                 monsters'[i].alive
                 => HitPortals(portals', MonsterRect(monsters'[i])) = {}
    ]_vars

\* ------------------------------------------------------------------------
\* C10 No live Monster's box overlaps a Wall's box, and a Monster whose move
\*     would overlap a Wall ends the tick at its position before the move.
\* ------------------------------------------------------------------------
\* the box of monster m of index i after the move it attempts
Attempt(m, i) ==
  IF MonsterData[i].direction = "horizontal"
  THEN Rect(MoveBy(m.x, m.speed), m.y, MonsterW, MonsterH)
  ELSE Rect(m.x, MoveBy(m.y, m.speed), MonsterW, MonsterH)

C10_CollisionRevert ==
  /\ [](\A i \in 1..NMonsters :
          monsters[i].alive => ~HitsWall(MonsterRect(monsters[i])))
  /\ [][ TickStep
         => \A i \in 1..NMonsters :
              (monsters[i].alive /\ HitsWall(Attempt(monsters[i], i)))
              => /\ monsters'[i].x = monsters[i].x
                 /\ monsters'[i].y = monsters[i].y
       ]_vars

\* a Monster has bounced off a Wall
C10_Witness ==
  /\ pc = "events"
  /\ \E i \in 1..NMonsters :
       /\ monsters[i].alive
       /\ monsters[i].speed = -MonsterData[i].speed

\* ------------------------------------------------------------------------
\* C11 In every Monster update the speed is negated exactly once if and
\*     only if the attempted move overlapped a Wall, is set to zero if and
\*     only if the Monster intersects the Player, and is otherwise
\*     unchanged; nothing else changes the speed of a Monster (a begin or
\*     restart input builds new Monsters).
\* ------------------------------------------------------------------------
\* the speed of monster i after its update in a Monster phase that finds the
\* Player at p
SpeedAfterUpdate(m, i, p) ==
  IF colliderect(PlayerRect(p), MonsterRect(m)) THEN 0
  ELSE IF HitsWall(Attempt(m, i)) THEN -m.speed
  ELSE m.speed

C11_SpeedChanges ==
  [][ /\ TickStep
         => LET w1 == AfterPlayer(World, ScheduledKeys)
            IN \A i \in 1..NMonsters :
                 monsters'[i].speed
                   = IF w1.state = GAME_STATE_PLAYING /\ monsters[i].alive
                     THEN SpeedAfterUpdate(monsters[i], i, w1.player)
                     ELSE monsters[i].speed
      /\ (~TickStep /\ ~(EventStep /\ Restarts(World, events')))
         => \A i \in 1..NMonsters : monsters'[i].speed = monsters[i].speed
    ]_vars

\* a Monster has stopped at the Player after another one has bounced
C11_Witness ==
  /\ pc = "events"
  /\ \E i, j \in 1..NMonsters :
       /\ monsters[i].speed = 0
       /\ monsters[j].alive
       /\ monsters[j].speed = -MonsterData[j].speed

QuitPolled(queue) == \E k \in 1..Len(queue) : queue[k] \in {QUIT, K_q}

C13_QuitEndsLoop ==
  /\ [](pc = "events" => running)
  /\ [][ /\ (EventStep /\ QuitPolled(events')) => (~running' /\ pc' = "logic")
         /\ (pc = "logic" /\ ~running) => (pc' = "done" /\ ~running')
         /\ pc # "done"
         /\ (running' # running) => (EventStep /\ QuitPolled(events'))
       ]_vars

\* the loop has ended after a quit key that stood in front of a place-portal
\* key in the queue of a Playing frame
C13_Witness ==
  /\ pc = "done"
  /\ current_game_state = GAME_STATE_PLAYING
  /\ Len(portals) = 1

\* ------------------------------------------------------------------------
\* C14 When several GameOver conditions hold in the same Playing tick, the
\*     recorded reason follows the order of the phases: reached-exit before
\*     caught-by-monster before time-expired; time_left is not decremented
\*     in a tick that ends at the exit or at a Monster.
\* ------------------------------------------------------------------------
\* the conditions as the tick about to run meets them
ExitHolds == PlayerRight(player) > ExitLine
CaughtHolds == Catchers(PlayerMove(World, ScheduledKeys)) # {}
TimeHolds == scoreboard.time_left - 1 < 0

C14_ReasonOrder ==
  [][ TickStep
      => /\ ExitHolds
            => /\ current_game_state' = GAME_STATE_GAME_OVER
               /\ game_over_reason_message' = REASON_EXIT
               /\ scoreboard'.time_left = scoreboard.time_left
         /\ (~ExitHolds /\ CaughtHolds)
            => /\ current_game_state' = GAME_STATE_GAME_OVER
               /\ game_over_reason_message' = REASON_GHOST
               /\ scoreboard'.time_left = scoreboard.time_left
         /\ (~ExitHolds /\ ~CaughtHolds /\ TimeHolds)
            => /\ current_game_state' = GAME_STATE_GAME_OVER
               /\ game_over_reason_message' = REASON_TIME
         /\ (~ExitHolds /\ ~CaughtHolds /\ ~TimeHolds)
            => current_game_state' = GAME_STATE_PLAYING
    ]_vars

\* the session ended at the exit while a Monster was overlapping the Player
C14_Witness ==
  /\ pc = "events"
  /\ current_game_state = GAME_STATE_GAME_OVER
  /\ game_over_reason_message = REASON_EXIT
  /\ Catchers(World) # {}

\* further cases of C14 that sessions reach: the exit, and a catch, in the
\* tick in which the time would have run out
C14_ExitAtExpiry ==
  /\ pc = "events"
  /\ game_over_reason_message = REASON_EXIT
  /\ scoreboard.time_left = 0

C14_CaughtAtExpiry ==
  /\ pc = "events"
  /\ game_over_reason_message = REASON_GHOST
  /\ scoreboard.time_left = 0

\* ------------------------------------------------------------------------
\* C15 A Playing tick that starts its Player phase with the Player's right
\*     edge > 1050 ends in GameOver(reached-exit) and skips the rest: the
\*     Player is not moved, no Coin is collected, no Monster or Portal is
\*     updated, time_left and points are unchanged.
\* ------------------------------------------------------------------------
C15_ExitSkipsTick ==
  [][ (TickStep /\ PlayerRight(player) > ExitLine)
      => /\ current_game_state' = GAME_STATE_GAME_OVER
         /\ game_over_reason_message' = REASON_EXIT
         /\ player' = player
         /\ coins' = coins
         /\ monsters' = monsters
         /\ portals' = portals
         /\ scoreboard' = scoreboard
    ]_vars

\* the session ended at the exit with the Player where the crossing left it
C15_Witness ==
  /\ pc = "events"
  /\ current_game_state = GAME_STATE_GAME_OVER
  /\ game_over_reason_message = REASON_EXIT
  /\ PlayerRight(player) = ExitLine + 2
  /\ scoreboard.time_left < StartTime

\* ------------------------------------------------------------------------
\* C16 The state is GameOver if and only if the stored reason is non-empty,
\*     and then the reason is the one of the phase that triggered GameOver;
\*     the reason does not change while the state stays GameOver and is
\*     empty again after any restart.
\* ------------------------------------------------------------------------
C16_ReasonMatchesState ==
  /\ [](/\ current_game_state = GAME_STATE_GAME_OVER
           <=> game_over_reason_message # ""
        /\ game_over_reason_message \in {"", REASON_EXIT, REASON_GHOST, REASON_TIME})
  /\ [][ /\ (current_game_state = GAME_STATE_GAME_OVER
                /\ current_game_state' = GAME_STATE_GAME_OVER)
            => game_over_reason_message' = game_over_reason_message
         /\ (current_game_state # GAME_STATE_GAME_OVER
                /\ current_game_state' = GAME_STATE_GAME_OVER)
            => /\ TickStep
               /\ game_over_reason_message'
                    = IF ExitHolds THEN REASON_EXIT
                      ELSE IF CaughtHolds THEN REASON_GHOST
                      ELSE REASON_TIME
               /\ (~ExitHolds /\ ~CaughtHolds) => TimeHolds
         /\ (EventStep /\ Restarts(World, events'))
            => game_over_reason_message' = ""
       ]_vars

\* a GameOver frame that polled a place-portal key keeps showing its reason
C16_Witness ==
  /\ pc = "logic"
  /\ events = <<K_SPACE>>
  /\ current_game_state = GAME_STATE_GAME_OVER
  /\ game_over_reason_message = REASON_GHOST

\* ------------------------------------------------------------------------
\* C17 No simulation happens outside Playing: a frame that starts and ends
\*     in Start or in GameOver leaves every entity and every Scoreboard
\*     field unchanged; a place-portal input in GameOver creates no Portal
\*     and spends no portal budget.
\* ------------------------------------------------------------------------
C17_NoSimulationOutsidePlaying ==
  [][ (current_game_state # GAME_STATE_PLAYING
         /\ current_game_state' # GAME_STATE_PLAYING)
      => /\ current_game_state' = current_game_state
         /\ UNCHANGED <<player, monsters, coins, portals, scoreboard>>
    ]_vars

\* a GameOver frame has polled a place-portal key with portals left to place
C17_Witness ==
  /\ pc = "logic"
  /\ current_game_state = GAME_STATE_GAME_OVER
  /\ events = <<K_SPACE, K_other>>
  /\ scoreboard.portals_remaining > 0
  /\ scoreboard.time_left < StartTime

\* ------------------------------------------------------------------------
\* C18 After any Player update the Player's box overlaps no Wall, for every
\*     combination of held direction keys; a horizontal move blocked by a
\*     Wall reverts only x and the vertical move of the same tick still
\*     happens, and a blocked vertical move reverts only y.
\* ------------------------------------------------------------------------
\* the coordinate the held keys ask for
AskedX(keys, x) ==
  IF K_LEFT \in keys THEN x - 3 ELSE IF K_RIGHT \in keys THEN x + 3 ELSE x
AskedY(keys, y) ==
  IF K_UP \in keys THEN y - 3 ELSE IF K_DOWN \in keys THEN y + 3 ELSE y

PlayerBoxAt(x, y) == [x |-> x, y |-> y, w |-> 50, h |-> 86]

C18_PlayerWallSliding ==
  /\ [](~HitsWall(PlayerBoxAt(player.x, player.y)))
  /\ [][ (TickStep /\ ~ExitHolds)
         => LET ax == AskedX(ScheduledKeys, player.x)
                ay == AskedY(ScheduledKeys, player.y)
            IN /\ player'.x = IF HitsWall(PlayerBoxAt(ax, player.y))
                              THEN player.x ELSE ax
               /\ player'.y = IF HitsWall(PlayerBoxAt(player'.x, ay))
                              THEN player.y ELSE ay
       ]_vars

\* UP and RIGHT have been held since the spawn and the Player has slid
\* along a Wall above it: it has gone further right than up
C18_Witness ==
  /\ pc = "events"
  /\ step = 8
  /\ current_game_state = GAME_STATE_PLAYING
  /\ player.y < 157
  /\ player.x - 75 > 157 - player.y
  /\ HitsWall(PlayerBoxAt(player.x, player.y - 3))

\* ------------------------------------------------------------------------
\* C19 A Monster moves only along its fixed axis: the y coordinate of a
\*     horizontal Monster and the x coordinate of a vertical Monster never
\*     change, and the axis of a Monster never changes.
\* ------------------------------------------------------------------------
\* the axis of monster i is the direction it was constructed with: nothing
\* in the code assigns Monster.direction after __init__
Axis(i) == MonsterData[i].direction

C19_MonsterAxis ==
  /\ [](\A i \in 1..NMonsters :
          /\ Axis(i) \in {"horizontal", "vertical"}
          /\ Axis(i) = "horizontal" => monsters[i].y = MonsterData[i].pos[2] - 35
          /\ Axis(i) = "vertical" => monsters[i].x = MonsterData[i].pos[1] - 25)
  /\ [][ \A i \in 1..NMonsters :
           /\ Axis(i) = "horizontal" => monsters'[i].y = monsters[i].y
           /\ Axis(i) = "vertical" => monsters'[i].x = monsters[i].x
       ]_vars

\* a horizontal and a vertical Monster have both bounced and are away from
\* where they started
C19_Witness ==
  /\ pc = "events"
  /\ \E i, j \in 1..NMonsters :
       /\ Axis(i) = "horizontal" /\ Axis(j) = "vertical"
       /\ monsters[i].alive /\ monsters[j].alive
       /\ monsters[i].speed < 0 /\ monsters[j].speed < 0
       /\ monsters[i].x # MonsterData[i].pos[1] - 25
       /\ monsters[j].y # MonsterData[j].pos[2] - 35

\* ------------------------------------------------------------------------
\* C20 (as stated) A session that gets no restart or quit input reaches
\*     GameOver after at most 100/(1/60) = 6000 completed ticks: time_left
\*     loses one step in every tick that completes its Scoreboard phase.
\* ------------------------------------------------------------------------
\* the ticks of the session that have completed their Scoreboard phase
CompletedTicks == StartTime - scoreboard.time_left

C20_OverWithin6000 ==
  (FrameEnd /\ CompletedTicks >= 6000)
  => current_game_state = GAME_STATE_GAME_OVER

\* C20 (amended) A session that gets no restart or quit input reaches
\*     GameOver in its 6001st tick at the latest: every tick either ends the
\*     session or takes one step off time_left, the session is still Playing
\*     after 6000 completed ticks only with time_left at the positive
\*     double 4.4e-12, and the tick after those ends it.
C20_OverWithin6001 ==
  /\ [](current_game_state = GAME_STATE_PLAYING => CompletedTicks \in 0..6000)
  /\ [][ TickStep
         => /\ \/ current_game_state' = GAME_STATE_GAME_OVER
               \/ scoreboard'.time_left = scoreboard.time_left - 1
            /\ CompletedTicks = 6000
               => current_game_state' = GAME_STATE_GAME_OVER
       ]_vars

\* 6000 ticks of a session are complete and its 6001st tick is about to run
C20_Witness ==
  /\ pc = "logic"
  /\ current_game_state = GAME_STATE_PLAYING
  /\ CompletedTicks = 6000

\* ------------------------------------------------------------------------
\* C21 Once a quit input has been polled, nothing is mutated and no state
\*     transition happens between the polling of the quit input and the end
\*     of the frame loop.
\* ------------------------------------------------------------------------
\* the events of the queue in front of its first quit input
RECURSIVE BeforeQuit(_)
BeforeQuit(queue) ==
  IF queue = <<>> \/ Head(queue) \in {QUIT, K_q} THEN <<>>
  ELSE <<Head(queue)>> \o BeforeQuit(Tail(queue))

C21_QuitFreezesWorld ==
  [][ /\ (EventStep /\ QuitPolled(events'))
         => World' = HandleEvents(World, BeforeQuit(events'))
      /\ ~running
         => UNCHANGED <<current_game_state, game_over_reason_message, player,
                        monsters, coins, portals, scoreboard>>
    ]_vars

\* ------------------------------------------------------------------------
\* C22 Monster conservation: ghosts_busted equals 12 minus the number of
\*     live Monsters in every reachable state; every Monster removed from
\*     the live set is counted exactly once, also when a Monster overlaps
\*     several Portals in the same tick.
\* ------------------------------------------------------------------------
LiveMonsters == {i \in 1..NMonsters : monsters[i].alive}

C22_MonsterConservation ==
  /\ [](scoreboard.ghosts_busted = 12 - Cardinality(LiveMonsters))
  /\ [][ TickStep
         => scoreboard'.ghosts_busted
              = scoreboard.ghosts_busted + Cardinality(Removed)
       ]_vars

\* two Portals stood at one spot and the first Monster to arrive has taken
\* both with it
C22_Witness ==
  /\ pc = "events"
  /\ current_game_state = GAME_STATE_PLAYING
  /\ scoreboard.portals_remaining = 3
  /\ portals = <<>>
  /\ scoreboard.ghosts_busted = 1

\* ------------------------------------------------------------------------
\* C23 The Portal phase never busts a Monster: whenever the Portal phase of
\*     a Playing tick runs, no live Monster overlaps any live Portal, so
\*     every change of ghosts_busted and every Monster removal happens in
\*     the Monster phase.
\* ------------------------------------------------------------------------
C23_PortalPhaseIdle ==
  [][ TickStep
      => LET w2 == AfterMonsters(World, ScheduledKeys)
         IN /\ w2.state = GAME_STATE_PLAYING
               => /\ \A k \in 1..Len(w2.portals) :
                       HitMonsters(w2, w2.portals[k]) = {}
                  /\ AfterPortals(World, ScheduledKeys) = w2
            /\ monsters' = w2.monsters
            /\ portals' = w2.portals
            /\ scoreboard'.ghosts_busted = w2.scoreboard.ghosts_busted
    ]_vars

\* the Portal phase has run over a live Portal after an earlier bust
C23_Witness ==
  /\ pc = "events"
  /\ current_game_state = GAME_STATE_PLAYING
  /\ Len(portals) >= 1
  /\ scoreboard.ghosts_busted >= 2
  /\ Cardinality(LiveMonsters) <= 10

\* ------------------------------------------------------------------------
\* C24 Each key-down event is handled against exactly one state, the state
\*     current when the event is processed: a single begin event in Start
\*     only starts the game and places no Portal (the first Playing tick
\*     starts with 0 Portals and portals_remaining = 5), and a single
\*     restart event in Playing or GameOver rebuilds the World once.
\* ------------------------------------------------------------------------
\* the queue holds exactly one begin or restart key and no place-portal key
\* behind it
OneBegin(w, queue) ==
  /\ Count(queue, K_r)
       + (IF w.state = GAME_STATE_START THEN Count(queue, K_SPACE) ELSE 0) = 1
  /\ \E k \in 1..Len(queue) :
       /\ queue[k] \in {K_r, K_SPACE}
       /\ \A n \in (k + 1)..Len(queue) : queue[n] # K_SPACE

C24_OneStatePerEvent ==
  [][ /\ (EventStep /\ OneBegin(World, events'))
         => /\ current_game_state' = GAME_STATE_PLAYING
            /\ portals' = <<>>
            /\ scoreboard' = [coins_collected |-> 0, time_left |-> 6000,
                              ghosts_busted |-> 0, portals_remaining |-> 5,
                              points |-> 0]
            /\ player' = [x |-> 75, y |-> 157]
            /\ coins' = 1..28
      /\ (EventStep /\ current_game_state = GAME_STATE_GAME_OVER
                    /\ Count(events', K_r) = 0)
         => /\ current_game_state' = GAME_STATE_GAME_OVER
            /\ portals' = portals
            /\ scoreboard' = scoreboard
      /\ (EventStep /\ current_game_state = GAME_STATE_START
                    /\ Count(events', K_r) + Count(events', K_SPACE) = 0)
         => /\ current_game_state' = GAME_STATE_START
            /\ portals' = portals
            /\ scoreboard' = scoreboard
    ]_vars

\* the frame that polled one SPACE on the Start screen is about to run the
\* first Playing tick, with no Portal placed and none spent
C24_Witness ==
  /\ pc = "logic"
  /\ events = <<K_SPACE>>
  /\ current_game_state = GAME_STATE_PLAYING
  /\ portals = <<>>
  /\ scoreboard.portals_remaining = 5
  /\ scoreboard.time_left = StartTime

====
